---- MODULE Spec2Model ----
(***************************************************************************)
(* typelib.graph: the type dependency graph builder (get_type_graph), its  *)
(* linearization (itertypes, over graphlib.TopologicalSorter) and the      *)
(* memoized entry point (static_order).                                    *)
(***************************************************************************)
EXTENDS Integers, Sequences, FiniteSets, TLC

VARIABLES
    type_args,   \* inspection.get_args: descriptor name -> sequence of argument names
    type_hints,  \* inspection.get_type_hints: descriptor name -> sequence of <<field, name>>
    broken,      \* the descriptor names whose introspection raises
    cache,       \* the memo of static_order: key -> Ordered Result
    todo,        \* per thread: the arguments it will still call static_order with
    t,           \* per thread: the local t of the innermost static_order body
    pc,          \* per thread: position in static_order / itertypes / get_type_graph
    frames,      \* per thread: keys of the static_order invocations awaiting their result
    stack,       \* per thread: get_type_graph's deque
    visited,     \* per thread: get_type_graph's visited set
    graph,       \* per thread: the TopologicalSorter (_node2info, in insertion order)
    ready,       \* per thread: TopologicalSorter._ready_nodes
    out,         \* per thread: the nodes yielded so far / the value being returned
    expanded,    \* history, per thread: the parents dequeued by the current build, in order
    discovered,  \* history, per thread: distinct nodes in order of creation by the build
    edges,       \* history, per thread: the <<parent, predecessor>> pairs the build recorded
    rounds,      \* history, per thread: the groups get_ready() handed out, in order
    call,        \* history, per thread: facts about the top-level call in progress
    log,         \* history: the completed top-level calls, in order of return
    errors       \* history: the top-level calls that raised, in order of raising

universeVars == <<type_args, type_hints, broken>>
buildVars == <<stack, visited, graph, expanded, discovered, edges>>
orderVars == <<ready, out, rounds>>
vars == <<type_args, type_hints, broken, cache, todo, t, pc, frames, stack, visited,
          graph, ready, out, expanded, discovered, edges, rounds, call, log, errors>>

(***************************************************************************)
(* Bounds of the model.                                                    *)
(***************************************************************************)
\* Total number of (label, child) entries over all levels of a universe.
MaxEdges == 4
\* Total number of top-level static_order calls in a behaviour of the cache model.
MaxCalls == 3

(***************************************************************************)
(* The universe of type descriptors.                                       *)
(***************************************************************************)
\* unsubscripted standard-library types: isstdlibtype and not issubscriptedgeneric
Prims == {"int", "str", "NoneType"}
\* user-defined structured types: members, no arguments
Users == {"A", "B"}
\* subscripted generics: arguments, no members
Generics == {"G"}
NonPrims == Users \cup Generics
Types == Prims \cup NonPrims
\* constants.empty / typing.Any: a child with no type information
AnyType == "Any"
Children == Types \cup {AnyType}
None == "None"
Threads == {"t1", "t2"}
FieldNames == <<"a", "b", "c", "d", "e", "f", "g">>

\* A concrete type descriptor.
Type(n) == [kind |-> "type", name |-> n]

\* refs.forwardref(name, is_argument=..., module=..., is_class=...)
forwardref(refname, is_argument, module, is_class) ==
    [kind |-> "ref", name |-> refname, is_argument |-> is_argument,
     module |-> module, is_class |-> is_class]

\* A textual reference given to static_order.
Str(n) == [kind |-> "str", name |-> n]

\* Mutant: the label is dropped.
TypeNode_unlabelled(type, var, cyclic) == [type |-> type, var |-> None, cyclic |-> cyclic]

\* TypeNode(type, var=None, cyclic=False); dataclass equality is over all fields.
TypeNode(type, var, cyclic) == [type |-> type, var |-> var, cyclic |-> cyclic]

issubscriptedgeneric(child) == child \in Generics
isstdlibtype(child) == child \in Prims
isclass(child) == child \in Users \cup Prims
get_qualname(child) == child
get_module(child) == IF child \in Prims THEN "builtins" ELSE "models"

\* Mutant: the arguments are left out.
_level_members_only(d) == type_hints[d]

\* _level(t): the arguments, unlabelled, then the members, in declaration order.
_level(d) ==
    [i \in 1..Len(type_args[d]) |-> <<None, type_args[d][i]>>] \o type_hints[d]

\* Mutant: a failure of the introspection is swallowed, the level is used as it is.
level_raises_swallowed(d) == FALSE

\* Lines 118-120: inspection.get_args / get_type_hints raise for descriptor d.
level_raises(d) == d \in broken

(***************************************************************************)
(* graphlib.TopologicalSorter, as get_type_graph and itertypes use it.     *)
(***************************************************************************)
EmptyGraph == [order |-> <<>>, npredecessors |-> <<>>, successors |-> <<>>]

\* TopologicalSorter._get_nodeinfo: a node is entered on first sight, keyed by equality.
get_nodeinfo(g, node) ==
    IF node \in DOMAIN g.npredecessors THEN g
    ELSE [order |-> Append(g.order, node),
          npredecessors |-> g.npredecessors @@ (node :> 0),
          successors |-> g.successors @@ (node :> <<>>)]

RECURSIVE add_successors(_, _, _, _)
add_successors(g, node, predecessors, i) ==
    IF i > Len(predecessors) THEN g
    ELSE LET g1 == get_nodeinfo(g, predecessors[i])
         IN add_successors(
                [g1 EXCEPT !.successors[predecessors[i]] = Append(@, node)],
                node, predecessors, i + 1)

RECURSIVE graph_add_reversed(_, _, _)
\* Mutant: the edges are entered the wrong way round, parent before predecessor.
graph_add_reversed(g, node, predecessors) ==
    IF predecessors = <<>> THEN get_nodeinfo(g, node)
    ELSE LET g1 == get_nodeinfo(g, node)
             g2 == get_nodeinfo(g1, Head(predecessors))
             g3 == [g2 EXCEPT !.npredecessors[Head(predecessors)] = @ + 1,
                              !.successors[node] = Append(@, Head(predecessors))]
         IN graph_add_reversed(g3, node, Tail(predecessors))

\* graph.add(parent, *predecessors)
graph_add(g, node, predecessors) ==
    LET g1 == get_nodeinfo(g, node)
        g2 == [g1 EXCEPT !.npredecessors[node] = @ + Len(predecessors)]
    IN add_successors(g2, node, predecessors, 1)

\* Mutant: the ready nodes are collected in reverse insertion order.
prepare_ready_reversed(g) ==
    LET r == SelectSeq(g.order, LAMBDA n : g.npredecessors[n] = 0)
    IN [i \in 1..Len(r) |-> r[Len(r) + 1 - i]]

\* Mutant: the order of the ready nodes depends on what the process did before.
prepare_ready_unstable(g) ==
    IF log = <<>> THEN SelectSeq(g.order, LAMBDA n : g.npredecessors[n] = 0)
    ELSE prepare_ready_reversed(g)

\* The nodes prepare() finds ready: those without predecessors, in insertion order.
prepare_ready(g) ==
    SelectSeq(g.order, LAMBDA n : g.npredecessors[n] = 0)

RECURSIVE done_successors(_, _, _)
\* done(node): each successor loses one predecessor and is appended once it has none.
done_successors(st, succs, i) ==
    IF i > Len(succs) THEN st
    ELSE LET s == succs[i]
             n == st.graph.npredecessors[s] - 1
             g1 == [st.graph EXCEPT !.npredecessors[s] = n]
         IN done_successors(
                [graph |-> g1,
                 ready |-> IF n = 0 THEN Append(st.ready, s) ELSE st.ready],
                succs, i + 1)

RECURSIVE done_nodes(_, _, _)
\* done(*node_group), node by node in the order of the group.
done_nodes(st, group, i) ==
    IF i > Len(group) THEN st
    ELSE LET node == group[i]
             g1 == [st.graph EXCEPT !.npredecessors[node] = -2]
         IN done_nodes(
                done_successors([graph |-> g1, ready |-> st.ready],
                                st.graph.successors[node], 1),
                group, i + 1)

\* TopologicalSorter._find_cycle, by its result: whether some node can never get ready.
RECURSIVE drain(_, _)
drain(g, rdy) ==
    IF rdy = <<>> THEN g
    ELSE LET st == done_nodes([graph |-> g, ready |-> <<>>], rdy, 1)
         IN drain(st.graph, st.ready)

find_cycle(g) ==
    \E n \in DOMAIN g.npredecessors : drain(g, prepare_ready(g)).npredecessors[n] # -2

(***************************************************************************)
(* get_type_graph: the body of the for loop, folded over one level.        *)
(***************************************************************************)
\* Mutant: the node, not its type, is looked up in the visited set of types.
is_visited_node(child, vis) == TypeNode(Type(child), None, FALSE) \in vis

\* Mutant: every child is taken to have been seen.
is_visited_always(child, vis) == TRUE

is_visited(child, vis) == Type(child) \in vis

\* Mutant: only subscripted generics are taken to be cyclic.
can_be_cyclic_subscripted_only(child) == issubscriptedgeneric(child)

\* Mutant: every revisited child is taken to be cyclic.
can_be_cyclic_always(child) == TRUE

can_be_cyclic(child) == issubscriptedgeneric(child) \/ ~isstdlibtype(child)

\* Mutant: the visited set starts empty.
initial_visited_empty(root) == {}

\* Line 64: visited = {root.type}
initial_visited(root) == {root.type}

\* Mutant: the child's type is not recorded as seen.
visited_add_skipped(vis, node) == vis

\* Mutant: the node, not its type, is recorded as seen.
visited_add_node(vis, node) == vis \cup {node}

\* Line 95: visited.add(node.type)
visited_add(vis, node) == vis \cup {node.type}

is_argument(var) == var # None

cyclic_node(var, child) ==
    TypeNode(forwardref(get_qualname(child), is_argument(var),
                        get_module(child), isclass(child)),
             var, TRUE)

RECURSIVE expand_enqueue_placeholder(_, _, _)
\* Mutant: the placeholder is put on the queue like any other node.
expand_enqueue_placeholder(st, lvl, i) ==
    IF i > Len(lvl) THEN st
    ELSE LET var == lvl[i][1]
             child == lvl[i][2]
         IN IF child = AnyType THEN expand_enqueue_placeholder(st, lvl, i + 1)
            ELSE IF is_visited(child, st.visited) /\ can_be_cyclic(child)
            THEN expand_enqueue_placeholder(
                     [st EXCEPT !.stack = Append(@, cyclic_node(var, child)),
                                !.predecessors = Append(@, cyclic_node(var, child))],
                     lvl, i + 1)
            ELSE LET node == TypeNode(Type(child), var, FALSE)
                 IN expand_enqueue_placeholder(
                        [visited |-> visited_add(st.visited, node),
                         stack |-> Append(st.stack, node),
                         predecessors |-> Append(st.predecessors, node)],
                        lvl, i + 1)

RECURSIVE expand(_, _, _)
\* st = [visited, stack, predecessors]; lvl[i] = <<var, child>>
expand(st, lvl, i) ==
    IF i > Len(lvl) THEN st
    ELSE LET var == lvl[i][1]
             child == lvl[i][2]
         IN IF child = AnyType THEN expand(st, lvl, i + 1)
            ELSE IF is_visited(child, st.visited) /\ can_be_cyclic(child)
            THEN expand([st EXCEPT !.predecessors =
                                       Append(@, cyclic_node(var, child))],
                        lvl, i + 1)
            ELSE LET node == TypeNode(Type(child), var, FALSE)
                 IN expand([visited |-> visited_add(st.visited, node),
                            stack |-> Append(st.stack, node),
                            predecessors |-> Append(st.predecessors, node)],
                           lvl, i + 1)

RECURSIVE append_new(_, _, _)
\* history: the nodes of s not seen before, appended to seq in order
append_new(seq, s, i) ==
    IF i > Len(s) THEN seq
    ELSE append_new(IF \E j \in 1..Len(seq) : seq[j] = s[i] THEN seq
                    ELSE Append(seq, s[i]),
                    s, i + 1)

(***************************************************************************)
(* static_order, itertypes and get_type_graph as steps of one thread.      *)
(***************************************************************************)
Top(s) == s[Len(s)]
Pop(s) == SubSeq(s, 1, Len(s) - 1)
Store(c, key, value) ==
    [k \in DOMAIN c \cup {key} |-> IF k = key THEN value ELSE c[k]]

\* refs.evaluate(ref), with refs.forwardref(t) first for a string: the named type.
evaluate(ref) == Type(ref.name)

\* refs.evaluate(ref) raises: the name matches no concrete type.
evaluate_raises(ref) == ref.name \notin Types

\* The concrete descriptor a top-level argument stands for.
RootOf(arg) == IF arg.kind = "type" THEN arg ELSE evaluate(arg)

NoCall == [arg |-> None, warm |-> FALSE, hit |-> FALSE, resolver_calls |-> 0,
           recursions |-> 0]

\* compat.cache on entry to the wrapper: whether the key is already stored.
cache_has(c, key) == key \in DOMAIN c

\* Mutant: the recursion bypasses the memo and always runs the body.
recursion_uncached(c, key) == FALSE

\* Line 26: the recursive call goes through the memoized static_order.
recursion_cached(c, key) == cache_has(c, key)

\* Mutant: the list is returned as soon as one group has been yielded.
exhausted_after_first_group(rdy, yielded) == yielded # <<>>

\* Line 28: [*itertypes(t)] ends when static_order() has nothing left to yield.
exhausted(rdy, yielded) == rdy = <<>>

\* static_order(arg), the wrapper finding its key: the stored value is returned.
CallHit(th) ==
    /\ pc[th] = "idle"
    /\ todo[th] # <<>>
    /\ cache_has(cache, Head(todo[th]))
    /\ todo' = [todo EXCEPT ![th] = Tail(@)]
    /\ log' = Append(log, [th |-> th, arg |-> Head(todo[th]),
                           root |-> RootOf(Head(todo[th])),
                           result |-> cache[Head(todo[th])],
                           warm |-> \E i \in 1..Len(log) :
                                        log[i].root = RootOf(Head(todo[th])),
                           hit |-> TRUE, level_calls |-> 0,
                           resolver_calls |-> 0, recursions |-> 0])
    /\ UNCHANGED <<universeVars, errors, cache, t, pc, frames, buildVars, orderVars, call>>

\* static_order(arg), the wrapper missing its key: the body runs.
CallMiss(th) ==
    /\ pc[th] = "idle"
    /\ todo[th] # <<>>
    /\ ~cache_has(cache, Head(todo[th]))
    /\ todo' = [todo EXCEPT ![th] = Tail(@)]
    /\ frames' = [frames EXCEPT ![th] = <<Head(todo[th])>>]
    /\ t' = [t EXCEPT ![th] = Head(todo[th])]
    /\ pc' = [pc EXCEPT ![th] = "body"]
    /\ call' = [call EXCEPT ![th] =
                    [arg |-> Head(todo[th]),
                     warm |-> \E i \in 1..Len(log) :
                                  log[i].root = RootOf(Head(todo[th])),
                     hit |-> FALSE, resolver_calls |-> 0, recursions |-> 0]]
    /\ UNCHANGED <<universeVars, errors, cache, buildVars, orderVars, log>>

\* Mutant: only a string is taken to be a reference.
is_reference_str_only(x) == x.kind = "str"

\* Line 21: isinstance(t, (str, refs.ForwardRef))
is_reference(x) == x.kind \in {"str", "ref"}

\* Lines 21-23: a string or forward reference is resolved.
Evaluate(th) ==
    /\ pc[th] = "body"
    /\ is_reference(t[th])
    /\ ~evaluate_raises(t[th])
    /\ t' = [t EXCEPT ![th] = evaluate(t[th])]
    /\ call' = [call EXCEPT ![th].resolver_calls = @ + 1]
    /\ pc' = [pc EXCEPT ![th] = "recurse"]
    /\ UNCHANGED <<universeVars, errors, cache, todo, frames, buildVars, orderVars, log>>

\* Line 26, the recursive call finding the resolved descriptor stored.
RecurseHit(th) ==
    /\ pc[th] = "recurse"
    /\ recursion_cached(cache, t[th])
    /\ out' = [out EXCEPT ![th] = cache[t[th]]]
    /\ call' = [call EXCEPT ![th].recursions = @ + 1]
    /\ pc' = [pc EXCEPT ![th] = "return"]
    /\ UNCHANGED <<universeVars, errors, cache, todo, t, frames, buildVars, ready, rounds, log>>

\* Line 26, the recursive call missing: the body runs for the resolved descriptor.
RecurseMiss(th) ==
    /\ pc[th] = "recurse"
    /\ ~recursion_cached(cache, t[th])
    /\ frames' = [frames EXCEPT ![th] = Append(@, t[th])]
    /\ call' = [call EXCEPT ![th].recursions = @ + 1]
    /\ pc' = [pc EXCEPT ![th] = "body"]
    /\ UNCHANGED <<universeVars, errors, cache, todo, t, buildVars, orderVars, log>>

\* Lines 28, 44-48, 61-64: the concrete path enters itertypes (which resolves
\* a reference handed to it) and get_type_graph.
Start(th) ==
    /\ pc[th] = "body"
    /\ ~is_reference(t[th])
    /\ LET resolve == t[th].kind \in {"str", "ref"}
           tt == IF resolve THEN evaluate(t[th]) ELSE t[th]
           root == TypeNode(tt, None, FALSE)
       IN /\ t' = [t EXCEPT ![th] = tt]
          /\ call' = [call EXCEPT ![th].resolver_calls =
                          IF resolve THEN @ + 1 ELSE @]
          /\ stack' = [stack EXCEPT ![th] = <<root>>]
          /\ visited' = [visited EXCEPT ![th] = initial_visited(root)]
          /\ discovered' = [discovered EXCEPT ![th] = <<root>>]
    /\ graph' = [graph EXCEPT ![th] = EmptyGraph]
    /\ pc' = [pc EXCEPT ![th] = "build"]
    /\ UNCHANGED <<universeVars, errors, cache, todo, frames, expanded, edges, orderVars, log>>

\* Lines 65-101: one iteration of the while loop.
BuildStep(th) ==
    /\ pc[th] = "build"
    /\ stack[th] # <<>>
    /\ ~level_raises(Head(stack[th]).type.name)
    /\ LET parent == Head(stack[th])
           st == expand([visited |-> visited[th], stack |-> Tail(stack[th]),
                         predecessors |-> <<>>],
                        _level(parent.type.name), 1)
       IN /\ stack' = [stack EXCEPT ![th] = st.stack]
          /\ visited' = [visited EXCEPT ![th] = st.visited]
          /\ graph' = [graph EXCEPT ![th] = graph_add(@, parent, st.predecessors)]
          /\ expanded' = [expanded EXCEPT ![th] = Append(@, parent)]
          /\ discovered' = [discovered EXCEPT ![th] =
                                append_new(@, st.predecessors, 1)]
          /\ edges' = [edges EXCEPT ![th] =
                           @ \cup {<<parent, st.predecessors[i]>> :
                                      i \in 1..Len(st.predecessors)}]
    /\ UNCHANGED <<universeVars, errors, cache, todo, t, pc, frames, orderVars, call, log>>

\* Lines 103 and 49: the queue is empty, the graph is returned and prepared.
Prepare(th) ==
    /\ pc[th] = "build"
    /\ stack[th] = <<>>
    /\ IF find_cycle(graph[th])
       THEN /\ pc' = [pc EXCEPT ![th] = "CycleError"]
            /\ UNCHANGED ready
       ELSE /\ pc' = [pc EXCEPT ![th] = "order"]
            /\ ready' = [ready EXCEPT ![th] = prepare_ready(graph[th])]
    /\ UNCHANGED <<universeVars, errors, cache, todo, t, frames, buildVars, out, rounds, call, log>>

\* Line 49: one round of static_order(): get_ready(), the yields, done().
Round(th) ==
    /\ pc[th] = "order"
    /\ ready[th] # <<>>
    /\ LET st == done_nodes([graph |-> graph[th], ready |-> <<>>], ready[th], 1)
       IN /\ graph' = [graph EXCEPT ![th] = st.graph]
          /\ ready' = [ready EXCEPT ![th] = st.ready]
    /\ out' = [out EXCEPT ![th] = @ \o ready[th]]
    /\ rounds' = [rounds EXCEPT ![th] = Append(@, ready[th])]
    /\ UNCHANGED <<universeVars, errors, cache, todo, t, pc, frames, stack, visited,
                   expanded, discovered, edges, call, log>>

\* Line 28: the sorter is no longer active, the list is complete.
Finish(th) ==
    /\ pc[th] = "order"
    /\ exhausted(ready[th], out[th])
    /\ pc' = [pc EXCEPT ![th] = "return"]
    /\ UNCHANGED <<universeVars, errors, cache, todo, t, frames, buildVars, orderVars, call, log>>

\* The wrapper stores the returned value under its key and returns it.
Return(th) ==
    /\ pc[th] = "return"
    /\ cache' = Store(cache, Top(frames[th]), out[th])
    /\ frames' = [frames EXCEPT ![th] = Pop(@)]
    /\ IF Len(frames[th]) > 1
       THEN UNCHANGED <<t, pc, buildVars, orderVars, call, log>>
       ELSE /\ log' = Append(log, [th |-> th, arg |-> call[th].arg,
                                   root |-> RootOf(call[th].arg),
                                   result |-> out[th],
                                   warm |-> call[th].warm, hit |-> FALSE,
                                   level_calls |-> Len(expanded[th]),
                                   resolver_calls |-> call[th].resolver_calls,
                                   recursions |-> call[th].recursions])
            /\ pc' = [pc EXCEPT ![th] = "idle"]
            /\ t' = [t EXCEPT ![th] = None]
            /\ call' = [call EXCEPT ![th] = NoCall]
            /\ stack' = [stack EXCEPT ![th] = <<>>]
            /\ visited' = [visited EXCEPT ![th] = {}]
            /\ graph' = [graph EXCEPT ![th] = EmptyGraph]
            /\ expanded' = [expanded EXCEPT ![th] = <<>>]
            /\ discovered' = [discovered EXCEPT ![th] = <<>>]
            /\ edges' = [edges EXCEPT ![th] = {}]
            /\ ready' = [ready EXCEPT ![th] = <<>>]
            /\ out' = [out EXCEPT ![th] = <<>>]
            /\ rounds' = [rounds EXCEPT ![th] = <<>>]
    /\ UNCHANGED <<universeVars, errors, todo>>

\* An exception leaves static_order: every pending invocation of the thread is
\* abandoned, nothing is returned and nothing is stored.
Unwind(th, kind) ==
    /\ errors' = Append(errors, [th |-> th, arg |-> call[th].arg, kind |-> kind,
                                 level_calls |-> Len(expanded[th]),
                                 yielded |-> out[th]])
    /\ frames' = [frames EXCEPT ![th] = <<>>]
    /\ pc' = [pc EXCEPT ![th] = "idle"]
    /\ t' = [t EXCEPT ![th] = None]
    /\ call' = [call EXCEPT ![th] = NoCall]
    /\ stack' = [stack EXCEPT ![th] = <<>>]
    /\ visited' = [visited EXCEPT ![th] = {}]
    /\ graph' = [graph EXCEPT ![th] = EmptyGraph]
    /\ expanded' = [expanded EXCEPT ![th] = <<>>]
    /\ discovered' = [discovered EXCEPT ![th] = <<>>]
    /\ edges' = [edges EXCEPT ![th] = {}]
    /\ ready' = [ready EXCEPT ![th] = <<>>]
    /\ out' = [out EXCEPT ![th] = <<>>]
    /\ rounds' = [rounds EXCEPT ![th] = <<>>]
    /\ UNCHANGED <<universeVars, cache, todo, log>>

\* Lines 22-23: refs.evaluate raises; nothing in static_order catches it.
EvaluateFails(th) ==
    /\ pc[th] = "body"
    /\ is_reference(t[th])
    /\ evaluate_raises(t[th])
    /\ Unwind(th, "resolver")

\* Lines 66-68: _level(parent.type) raises inside the while loop; nothing in
\* get_type_graph, itertypes or static_order catches it.
LevelFails(th) ==
    /\ pc[th] = "build"
    /\ stack[th] # <<>>
    /\ level_raises(Head(stack[th]).type.name)
    /\ Unwind(th, "introspection")

\* static_order.cache_clear(), between two calls of the caller.
CacheClear(th) ==
    /\ pc[th] = "idle"
    /\ todo[th] # <<>>
    /\ cache # <<>>
    /\ cache' = <<>>
    /\ UNCHANGED <<universeVars, errors, todo, t, pc, frames, buildVars, orderVars,
                   call, log>>

(***************************************************************************)
(* Universes: what the introspection collaborator answers.                 *)
(***************************************************************************)
\* The members of a user type, named by position; the arguments of a generic.
HintsOf(kids) ==
    [d \in Types |-> IF d \in Users
                     THEN [i \in 1..Len(kids[d]) |-> <<FieldNames[i], kids[d][i]>>]
                     ELSE <<>>]
ArgsOf(kids) ==
    [d \in Types |-> IF d \in Generics THEN kids[d] ELSE <<>>]

RECURSIVE Reach(_, _)
\* The descriptors reachable from the set S through levels.
Reach(S, kids) ==
    LET N == S \cup {c \in Types : \E d \in S : \E i \in 1..Len(kids[d]) :
                                      kids[d][i] = c}
    IN IF N = S THEN S ELSE Reach(N, kids)

\* The levels of a universe: A's, B's and G's children; a primitive has none.
KidsOf(ka, kb, kg) ==
    [d \in Types |-> CASE d = "A" -> ka [] d = "B" -> kb [] d = "G" -> kg
                       [] OTHER -> <<>>]

\* The universes of the cache model: a direct cycle, an indirect cycle, a wide graph.
SampleKids ==
    { KidsOf(<<"A", "int">>, <<>>, <<>>),
      KidsOf(<<"B">>, <<"A">>, <<>>),
      KidsOf(<<"int", "G">>, <<"int">>, <<"A", "B">>) }

\* The arguments the callers of the cache model pass.
Inputs ==
    {Type("A"), Type("G"), Str("A"), forwardref("A", FALSE, None, FALSE)}

RECURSIVE SeqsOf(_, _)
SeqsOf(S, n) ==
    IF n = 0 THEN {<<>>}
    ELSE {<<x>> \o s : x \in S, s \in SeqsOf(S, n - 1)}

InitLocals ==
    /\ cache = <<>>
    /\ t = [th \in Threads |-> None]
    /\ pc = [th \in Threads |-> "idle"]
    /\ frames = [th \in Threads |-> <<>>]
    /\ stack = [th \in Threads |-> <<>>]
    /\ visited = [th \in Threads |-> {}]
    /\ graph = [th \in Threads |-> EmptyGraph]
    /\ ready = [th \in Threads |-> <<>>]
    /\ out = [th \in Threads |-> <<>>]
    /\ expanded = [th \in Threads |-> <<>>]
    /\ discovered = [th \in Threads |-> <<>>]
    /\ edges = [th \in Threads |-> {}]
    /\ rounds = [th \in Threads |-> <<>>]
    /\ call = [th \in Threads |-> NoCall]
    /\ log = <<>>
    /\ errors = <<>>

\* The cache model: two threads, MaxCalls calls between them, an empty cache.
Init ==
    /\ \E kids \in SampleKids :
          /\ type_args = ArgsOf(kids)
          /\ type_hints = HintsOf(kids)
    /\ broken = {}
    /\ \E n \in 0..MaxCalls :
          /\ 2 * n <= MaxCalls
          /\ \E s1 \in SeqsOf(Inputs, MaxCalls - n), s2 \in SeqsOf(Inputs, n) :
                todo = [th \in Threads |-> IF th = "t1" THEN s1 ELSE s2]
    /\ InitLocals

Next ==
    \E th \in Threads :
        \/ CallHit(th)
        \/ CallMiss(th)
        \/ Evaluate(th)
        \/ RecurseHit(th)
        \/ RecurseMiss(th)
        \/ Start(th)
        \/ BuildStep(th)
        \/ Prepare(th)
        \/ Round(th)
        \/ Finish(th)
        \/ Return(th)

Spec == Init /\ [][Next]_vars

\* The roots of the builder model; B is A renamed.
Roots == {"int", "A", "G"}

\* The children of the enumerated universes; str and NoneType are int renamed.
EnumChildren == {"int"} \cup NonPrims \cup {AnyType}

\* The builder model: one cold call with a concrete root, over every universe
\* of at most MaxEdges entries (levels of unreachable types left empty) and
\* over the universes of the cache model.
InitBuild ==
    /\ \E root \in Roots :
          /\ \/ \E sa \in 0..MaxEdges : \E sb \in 0..(MaxEdges - sa) :
                \E sg \in 0..(MaxEdges - sa - sb) :
                \E ka \in [1..sa -> EnumChildren], kb \in [1..sb -> EnumChildren],
                   kg \in [1..sg -> EnumChildren] :
                   LET kids == KidsOf(ka, kb, kg)
                   IN /\ \A d \in Types \ Reach({root}, kids) : kids[d] = <<>>
                      /\ type_args = ArgsOf(kids)
                      /\ type_hints = HintsOf(kids)
             \/ \E kids \in SampleKids :
                   /\ type_args = ArgsOf(kids)
                   /\ type_hints = HintsOf(kids)
          /\ todo = [th \in Threads |-> IF th = "t1" THEN <<Type(root)>> ELSE <<>>]
    /\ broken = {}
    /\ InitLocals

NextBuild ==
    \E th \in Threads :
        \/ CallMiss(th)
        \/ Start(th)
        \/ BuildStep(th)
        \/ Prepare(th)
        \/ Round(th)
        \/ Finish(th)
        \/ Return(th)

SpecBuild == InitBuild /\ [][NextBuild]_vars

\* The arguments of the failure model: a type, a string naming it, and a
\* string and a forward reference naming nothing.
FailInputs ==
    {Type("A"), Str("A"), Str("Missing"), forwardref("Missing", FALSE, None, FALSE)}

\* The descriptors whose introspection fails, per universe of the failure model.
BrokenSets == {{}, {"A"}, {"B"}, {"int"}}

\* The failure model: the universes of the cache model, in each of which the
\* introspection may fail for some descriptors; one thread makes all calls
\* but one, the other thread makes one.
InitFail ==
    /\ \E kids \in SampleKids :
          /\ type_args = ArgsOf(kids)
          /\ type_hints = HintsOf(kids)
    /\ broken \in BrokenSets
    /\ \E s1 \in SeqsOf(FailInputs, MaxCalls - 1), s2 \in SeqsOf(FailInputs, 1) :
          todo = [th \in Threads |-> IF th = "t1" THEN s1 ELSE s2]
    /\ InitLocals

NextFail ==
    \E th \in Threads :
        \/ CallHit(th)
        \/ CallMiss(th)
        \/ Evaluate(th)
        \/ EvaluateFails(th)
        \/ RecurseHit(th)
        \/ RecurseMiss(th)
        \/ Start(th)
        \/ BuildStep(th)
        \/ LevelFails(th)
        \/ Prepare(th)
        \/ Round(th)
        \/ Finish(th)
        \/ Return(th)

SpecFail == InitFail /\ [][NextFail]_vars

\* Pair { a: int, b: list[str] }: A stands for Pair, G for list[str].
PairHints ==
    [d \in Types |-> IF d = "A" THEN <<<<"a", "int">>, <<"b", "G">>>> ELSE <<>>]
PairArgs ==
    [d \in Types |-> IF d = "G" THEN <<"str">> ELSE <<>>]

\* Node { value: int, next: Optional[Node] }: A stands for Node, G for
\* Optional[Node], that is Union[Node, None] with the arguments (Node, NoneType).
NodeHints ==
    [d \in Types |-> IF d = "A" THEN <<<<"value", "int">>, <<"next", "G">>>> ELSE <<>>]
NodeArgs ==
    [d \in Types |-> IF d = "G" THEN <<"A", "NoneType">> ELSE <<>>]

\* The arguments of the rebuild model.
ClearInputs == {Type("A"), Type("G")}

\* The rebuild model: one caller making all calls but one of MaxCalls, with
\* concrete roots, and clearing the cache between calls as it pleases; the
\* universes of the cache model and the two scenarios.
InitClear ==
    /\ \/ \E kids \in SampleKids :
             /\ type_args = ArgsOf(kids)
             /\ type_hints = HintsOf(kids)
       \/ type_args = PairArgs /\ type_hints = PairHints
       \/ type_args = NodeArgs /\ type_hints = NodeHints
    /\ broken = {}
    /\ \E s1 \in SeqsOf(ClearInputs, MaxCalls - 1) :
          todo = [th \in Threads |-> IF th = "t1" THEN s1 ELSE <<>>]
    /\ InitLocals

NextClear ==
    \E th \in Threads :
        \/ CallHit(th)
        \/ CallMiss(th)
        \/ CacheClear(th)
        \/ Start(th)
        \/ BuildStep(th)
        \/ Prepare(th)
        \/ Round(th)
        \/ Finish(th)
        \/ Return(th)

SpecClear == InitClear /\ [][NextClear]_vars

(***************************************************************************)
(* Properties.                                                             *)
(***************************************************************************)
\* The number of entries of d's level: its arguments and its members.
LevelSize(d) == Len(type_args[d]) + Len(type_hints[d])

RECURSIVE SumLevels(_)
SumLevels(S) ==
    IF S = {} THEN 0
    ELSE LET d == CHOOSE x \in S : TRUE
         IN LevelSize(d) + SumLevels(S \ {d})

\* The number of (label, child) entries of the universe; the level of a
\* primitive is empty.
TotalEntries == SumLevels(NonPrims)

\* The build of thread th has run and its value is about to be returned.
Built(th) == pc[th] = "return" /\ expanded[th] # <<>>

IsCyclicNode(n) == n.cyclic
Occurrences(seq, x) == Cardinality({i \in 1..Len(seq) : seq[i] = x})
Before(seq, x, y) ==
    /\ \E i \in 1..Len(seq) : seq[i] = x
    /\ \E j \in 1..Len(seq) : seq[j] = y
    /\ \A i, j \in 1..Len(seq) : seq[i] = x /\ seq[j] = y => i < j

\* Work left to the build: the queue, and the levels of the descriptors that can
\* still be expanded (not visited yet, or waiting in the queue).
BuildMeasure(th) ==
    Len(stack[th])
    + SumLevels({d \in NonPrims :
                   \/ Type(d) \notin visited[th]
                   \/ \E i \in 1..Len(stack[th]) : stack[th][i].type = Type(d)})

\* Work left to the linearization: the nodes not yet yielded.
OrderMeasure(th) == Cardinality(DOMAIN graph[th].npredecessors) - Len(out[th])

Phase(th) ==
    CASE pc[th] = "idle" /\ todo[th] # <<>> -> 5
      [] pc[th] = "body" -> 4
      [] pc[th] = "build" -> 3
      [] pc[th] = "order" -> 2
      [] pc[th] = "return" -> 1
      [] OTHER -> 0

Variant(th) ==
    IF Phase(th) = 0 THEN 0
    ELSE Phase(th) * (2 * TotalEntries + 3)
         + (CASE pc[th] = "build" -> BuildMeasure(th) + 1
              [] pc[th] = "order" -> OrderMeasure(th)
              [] OTHER -> 0)

RECURSIVE SumVariants(_)
SumVariants(S) ==
    IF S = {} THEN 0
    ELSE LET th == CHOOSE x \in S : TRUE
         IN Variant(th) + SumVariants(S \ {th})

\* The work left to all threads together.
TotalVariant == SumVariants(Threads)

\* C1: a cold static_order call on any root of any universe terminates: every
\* step of the call strictly decreases a natural-number measure (the while
\* loop of get_type_graph consumes the queue plus the levels still to expand,
\* the linearization consumes the nodes still to yield), no CycleError is
\* raised, and the sequence returned has at most 1 + TotalEntries nodes; this
\* includes roots that name themselves directly or through other types.
C1_Termination ==
    /\ [][TotalVariant' < TotalVariant]_vars
    /\ [](\A th \in Threads :
            /\ pc[th] # "CycleError"
            /\ LET v == Variant(th)
               IN /\ v >= 0
                  /\ v = 0 <=> (pc[th] = "idle" /\ todo[th] = <<>>))
    /\ [](\A i \in 1..Len(log) :
            /\ Len(log[i].result) >= 1
            /\ Len(log[i].result) <= 1 + TotalEntries)

\* C1 witness: a call on root A, which reaches B, which names A again, and
\* also names itself, has returned.
C1_Witness ==
    /\ \E i \in 1..Len(type_hints["A"]) : type_hints["A"][i][2] = "B"
    /\ \E i \in 1..Len(type_hints["B"]) : type_hints["B"][i][2] = "A"
    /\ \E i \in 1..Len(type_hints["B"]) : type_hints["B"][i][2] = "B"
    /\ \E i \in 1..Len(log) : log[i].root = Type("A") /\ log[i].level_calls >= 2

\* C2: when a build has been linearized, every edge the builder recorded
\* (parent depends on predecessor) has its predecessor at a strictly smaller
\* index of the returned sequence than its parent, whatever the root.
C2_TopologicalValidity ==
    \A th \in Threads :
        Built(th) => \A e \in edges[th] : Before(out[th], e[2], e[1])

\* C2 witness: a linearized build in which one predecessor is shared by two parents.
C2_Witness ==
    \E th \in Threads :
        /\ Built(th)
        /\ \E e1, e2 \in edges[th] : e1[2] = e2[2] /\ e1[1] # e2[1]

\* C3: the last element of the returned sequence is the non-cyclic, unlabelled
\* node of the root descriptor, and no other element has the root descriptor
\* as its type.
C3_RootLast ==
    \A th \in Threads :
        Built(th) =>
            /\ out[th] # <<>>
            /\ Top(out[th]) = TypeNode(t[th], None, FALSE)
            /\ \A i \in 1..(Len(out[th]) - 1) : out[th][i].type # t[th]

\* C3 witness: a returned sequence of three or more nodes whose root is named
\* again below itself.
C3_Witness ==
    \E th \in Threads :
        /\ Built(th)
        /\ Len(out[th]) >= 3
        /\ \E i \in 1..Len(out[th]) :
              out[th][i].cyclic /\ out[th][i].type.name = t[th].name

\* The number of entries of d's level whose child is c.
CountChild(d, c) ==
    Cardinality({i \in 1..Len(_level(d)) : _level(d)[i][2] = c})

Nodes(th) == DOMAIN graph[th].npredecessors

\* The build of root A where A has exactly one field of type A.
DirectCycle(th) ==
    /\ pc[th] \in {"build", "order", "return"}
    /\ t[th] = Type("A")
    /\ CountChild("A", "A") = 1

\* C4: for root A with a field of type A, only the root's own node of type A
\* is ever queued or expanded; once built, the root has exactly one
\* cyclic-flagged predecessor standing for A, every cyclic-flagged node has no
\* predecessors recorded and was never expanded, and the graph has at most
\* 1 + TotalEntries nodes.
C4_DirectCycle ==
    \A th \in Threads :
        DirectCycle(th) =>
            /\ \A i \in 1..Len(stack[th]) :
                  /\ ~stack[th][i].cyclic
                  /\ stack[th][i].type = Type("A") =>
                        stack[th][i] = TypeNode(Type("A"), None, FALSE)
                        /\ expanded[th] = <<>>
            /\ \A i \in 1..Len(expanded[th]) : ~expanded[th][i].cyclic
            /\ Occurrences(expanded[th], TypeNode(Type("A"), None, FALSE)) <= 1
            /\ Built(th) =>
                  /\ Cardinality({e \in edges[th] :
                                    /\ e[1] = TypeNode(Type("A"), None, FALSE)
                                    /\ e[2].cyclic
                                    /\ e[2].type.name = "A"}) = 1
                  /\ \A e \in edges[th] : ~e[1].cyclic
                  /\ Cardinality(Nodes(th)) <= 1 + TotalEntries

\* C4 witness: such a build, with a second field beside the recursive one, is done.
C4_Witness ==
    \E th \in Threads :
        /\ DirectCycle(th)
        /\ Built(th)
        /\ Len(_level("A")) >= 2
        /\ \E i \in 1..Len(out[th]) : out[th][i].cyclic

\* The build of root A where A has a field of type B and B a field of type A.
IndirectCycle(th) ==
    /\ pc[th] \in {"build", "order", "return"}
    /\ t[th] = Type("A")
    /\ CountChild("A", "B") >= 1
    /\ CountChild("B", "A") >= 1

NonCyclicOf(th, d) == {n \in Nodes(th) : ~n.cyclic /\ n.type = Type(d)}
ExpansionsOf(th, d) ==
    Cardinality({i \in 1..Len(expanded[th]) : expanded[th][i].type = Type(d)})

\* C5: for root A with a field of type B, where B has a field of type A, A and
\* B are each expanded at most once during the build; once built, B's node has
\* a cyclic-flagged predecessor standing for A, and A and B each have exactly
\* one non-cyclic node, expanded exactly once.
C5_IndirectCycle ==
    \A th \in Threads :
        IndirectCycle(th) =>
            /\ ExpansionsOf(th, "A") <= 1
            /\ ExpansionsOf(th, "B") <= 1
            /\ Built(th) =>
                  /\ \E e \in edges[th] :
                        /\ e[1].type = Type("B") /\ ~e[1].cyclic
                        /\ e[2].cyclic /\ e[2].type.name = "A"
                  /\ Cardinality(NonCyclicOf(th, "A")) = 1
                  /\ Cardinality(NonCyclicOf(th, "B")) = 1
                  /\ ExpansionsOf(th, "A") = 1
                  /\ ExpansionsOf(th, "B") = 1

\* C5 witness: such a build is done, A naming B in two of its fields.
C5_Witness ==
    \E th \in Threads :
        /\ IndirectCycle(th)
        /\ Built(th)
        /\ CountChild("A", "B") = 2

\* C6: a child that is an unsubscripted standard-library type always yields a
\* non-cyclic node: every recorded edge to a cyclic-flagged node comes from a
\* level entry whose child is not such a primitive, and every level entry of
\* an expanded parent whose child is a primitive is recorded as an edge to the
\* non-cyclic node of that primitive under that label.
C6_PrimitiveNotCyclic ==
    \A th \in Threads :
        /\ \A e \in edges[th] :
              e[2].cyclic =>
                  /\ e[2].type.name \notin Prims
                  /\ \E i \in 1..Len(_level(e[1].type.name)) :
                        LET en == _level(e[1].type.name)[i]
                        IN en[2] \notin Prims /\ en[2] # AnyType
                           /\ e[2] = cyclic_node(en[1], en[2])
        /\ \A k \in 1..Len(expanded[th]) :
              LET lvl == _level(expanded[th][k].type.name)
              IN \A i \in 1..Len(lvl) :
                    lvl[i][2] \in Prims =>
                        <<expanded[th][k], TypeNode(Type(lvl[i][2]), lvl[i][1], FALSE)>>
                            \in edges[th]

\* Level entries naming the primitive int, over the parents expanded so far.
IntVisits(th) ==
    {<<k, i>> \in (1..Len(expanded[th])) \X (1..MaxEdges + 2) :
        /\ i <= Len(_level(expanded[th][k].type.name))
        /\ _level(expanded[th][k].type.name)[i][2] = "int"}

\* C6 witness: a finished build that met int three times or more, under two
\* parents and two labels at least.
C6_Witness ==
    \E th \in Threads :
        /\ Built(th)
        /\ Cardinality(IntVisits(th)) >= 3
        /\ Cardinality({expanded[th][v[1]] : v \in IntVisits(th)}) >= 2
        /\ Cardinality({_level(expanded[th][v[1]].type.name)[v[2]][1] :
                          v \in IntVisits(th)}) >= 2

\* The position of node n in seq (n occurs in seq).
IndexIn(seq, n) == CHOOSE i \in 1..Len(seq) : seq[i] = n

\* The position in the returned sequence of n's predecessor yielded last.
LastPredecessor(th, n) ==
    LET ps == {IndexIn(out[th], e[2]) : e \in {x \in edges[th] : x[1] = n}}
    IN CHOOSE i \in ps : \A k \in ps : k <= i

\* C8 as stated: within every group of nodes handed out together by the
\* linearization, the nodes stand in the order of their first discovery.
C8_DiscoveryOrder ==
    \A th \in Threads :
        Built(th) =>
            \A r \in 1..Len(rounds[th]) :
                \A i, j \in 1..Len(rounds[th][r]) :
                    i < j => IndexIn(discovered[th], rounds[th][r][i])
                             < IndexIn(discovered[th], rounds[th][r][j])

\* C8 amended: nodes of one round are yielded in the order in which they
\* became dependency-free: the nodes without predecessors (first round) in
\* discovery order; in a later round, a node whose last predecessor was
\* yielded earlier comes first, and nodes with the same last predecessor
\* stand in discovery order.
C8_ReadyOrder ==
    \A th \in Threads :
        Built(th) =>
            \A r \in 1..Len(rounds[th]) :
                \A i, j \in 1..Len(rounds[th][r]) :
                    i < j =>
                        LET a == rounds[th][r][i]
                            b == rounds[th][r][j]
                            da == IndexIn(discovered[th], a)
                            db == IndexIn(discovered[th], b)
                        IN IF r = 1 THEN da < db
                           ELSE \/ LastPredecessor(th, a) < LastPredecessor(th, b)
                                \/ /\ LastPredecessor(th, a) = LastPredecessor(th, b)
                                   /\ da < db

\* C8 witness: a later round yields two nodes against their discovery order,
\* the later-discovered parent having been made ready first by a shared node.
C8_Witness ==
    \E th \in Threads :
        /\ Built(th)
        /\ \E r \in 2..Len(rounds[th]) :
              \E i, j \in 1..Len(rounds[th][r]) :
                  /\ i < j
                  /\ IndexIn(discovered[th], rounds[th][r][i])
                     > IndexIn(discovered[th], rounds[th][r][j])
                  /\ \E e1, e2 \in edges[th] :
                        /\ e1[2] = e2[2]
                        /\ e1[1] = rounds[th][r][i]
                        /\ e2[1] = rounds[th][r][j]

\* C7: a call that begins after a call for the same root has completed makes
\* no call to _level (no graph is constructed) and returns the sequence the
\* earlier calls for that root returned.
C7_Memoization ==
    /\ \A th \in Threads :
          call[th].warm => /\ expanded[th] = <<>>
                           /\ pc[th] \notin {"build", "order", "CycleError"}
    /\ \A j \in 1..Len(log) :
          log[j].warm =>
              /\ log[j].level_calls = 0
              /\ \A i \in 1..(j - 1) :
                    log[i].root = log[j].root => log[i].result = log[j].result

\* C7 witness: after a completed call for a root, one later call hit the memo
\* directly and another came in through a reference to the same root.
C7_Witness ==
    \E j, k \in 1..Len(log) :
        /\ log[j].warm /\ log[j].hit
        /\ log[k].warm /\ ~log[k].hit /\ log[k].arg.kind # "type"
        /\ log[j].root = log[k].root

\* The node the Ordered Result of a key ends with.
RootNodeOf(key) == TypeNode(RootOf(key), None, FALSE)

\* C9: in every interleaving, every stored value and every returned value is
\* a complete Ordered Result (it ends with the root's node, which only the
\* last round yields), and all calls for one root return equal sequences,
\* also when several threads missed and built it independently.
C9_ConcurrentCache ==
    /\ \A k \in DOMAIN cache :
          /\ cache[k] # <<>>
          /\ Top(cache[k]) = RootNodeOf(k)
          /\ \A j \in 1..Len(log) :
                log[j].root = RootOf(k) => log[j].result = cache[k]
    /\ \A j \in 1..Len(log) :
          /\ log[j].result # <<>>
          /\ Top(log[j].result) = RootNodeOf(log[j].arg)
          /\ \A i \in 1..Len(log) :
                log[i].root = log[j].root => log[i].result = log[j].result

\* C9 witness: two threads missed on the same root, each built its own graph
\* of several nodes, and both calls have returned.
C9_Witness ==
    \E i, j \in 1..Len(log) :
        /\ log[i].th # log[j].th
        /\ log[i].root = log[j].root
        /\ log[i].level_calls >= 2
        /\ log[j].level_calls >= 2

\* C10: a call given a string or a forward reference, running the body for it,
\* invokes the resolver exactly once and makes exactly one recursive call, with
\* the resolved descriptor; its result is the sequence stored for, and returned
\* by direct calls with, the resolved descriptor. Afterwards the reference and
\* the resolved descriptor are both stored, and a repeated call with the
\* reference is a hit that resolves nothing.
C10_ReferenceInputs ==
    \A j \in 1..Len(log) :
        log[j].arg.kind # "type" =>
            /\ ~log[j].hit => log[j].resolver_calls = 1 /\ log[j].recursions = 1
            /\ log[j].hit => log[j].resolver_calls = 0 /\ log[j].recursions = 0
            /\ cache_has(cache, log[j].arg) /\ cache[log[j].arg] = log[j].result
            /\ cache_has(cache, log[j].root) /\ cache[log[j].root] = log[j].result
            /\ \A i \in 1..Len(log) :
                  log[i].arg = log[j].root => log[i].result = log[j].result

\* C10 witness: a string and a forward reference to the same type were each
\* resolved by a completed call, one of which built the graph itself, and a
\* direct call with the resolved descriptor has completed as well.
C10_Witness ==
    \E i, j, k \in 1..Len(log) :
        /\ log[i].arg.kind = "str" /\ ~log[i].hit
        /\ log[j].arg.kind = "ref" /\ ~log[j].hit
        /\ log[i].root = log[j].root
        /\ log[i].level_calls + log[j].level_calls >= 1
        /\ log[k].arg = log[i].root

\* The children of every descriptor, as its level lists them.
LevelKids ==
    [d \in Types |-> [i \in 1..Len(_level(d)) |-> _level(d)[i][2]]]

\* The call with this argument meets a failure: the resolver fails on the
\* argument, or the introspection fails on a descriptor reachable from the root.
MustFail(arg) ==
    \/ arg.kind # "type" /\ arg.name \notin Types
    \/ Reach({RootOf(arg).name}, LevelKids) \cap broken # {}

\* C11: a call whose root the resolver cannot resolve, or whose build reaches a
\* descriptor the introspection fails on, raises: it returns no sequence (none
\* was yielded, no call for that argument is ever logged as returned), it
\* stores nothing (neither its argument nor its root is ever a key of the
\* cache) and the step that raises leaves the cache and the returned calls as
\* they were; calls that raise are exactly those that meet such a failure.
C11_FatalErrors ==
    /\ [](\A i \in 1..Len(errors) :
            /\ MustFail(errors[i].arg)
            /\ errors[i].yielded = <<>>
            /\ ~cache_has(cache, errors[i].arg)
            /\ ~cache_has(cache, RootOf(errors[i].arg))
            /\ errors[i].kind = "resolver" =>
                  errors[i].arg.kind # "type" /\ errors[i].level_calls = 0
            /\ \A j \in 1..Len(log) :
                  log[j].arg # errors[i].arg /\ log[j].root # RootOf(errors[i].arg))
    /\ [](\A k \in DOMAIN cache : ~MustFail(k))
    /\ [](\A j \in 1..Len(log) : ~MustFail(log[j].arg))
    /\ [][errors' # errors => cache' = cache /\ log' = log]_vars

\* C11 witness: the resolver failed on a string, and the introspection failed
\* on a descriptor below the root (after the root's level had been read), for
\* a call and again for a later call with the same argument.
C11_Witness ==
    \E i, j, k \in 1..Len(errors) :
        /\ errors[i].kind = "resolver" /\ errors[i].arg.kind = "str"
        /\ errors[j].kind = "introspection" /\ errors[j].level_calls >= 1
        /\ errors[k].kind = "introspection" /\ j < k
        /\ errors[j].arg = errors[k].arg

PairCall(j) ==
    /\ type_hints = PairHints
    /\ type_args = PairArgs
    /\ log[j].root = Type("A")

\* C13: for root Pair { a: int, b: list[str] } the sequence returned is the
\* int node labelled a, the unlabelled str node, the list[str] node labelled
\* b, the unlabelled Pair node, in this order, none of them cyclic.
C13_PairScenario ==
    \A j \in 1..Len(log) :
        PairCall(j) =>
            log[j].result =
                << [type |-> Type("int"), var |-> "a", cyclic |-> FALSE],
                   [type |-> Type("str"), var |-> None, cyclic |-> FALSE],
                   [type |-> Type("G"), var |-> "b", cyclic |-> FALSE],
                   [type |-> Type("A"), var |-> None, cyclic |-> FALSE] >>

\* C13 witness: a call for root Pair that built the graph has returned.
C13_Witness ==
    \E j \in 1..Len(log) : PairCall(j) /\ ~log[j].hit /\ log[j].level_calls = 4

\* The Node scenario is the universe, and the root of call j is Node.
NodeCall(j) ==
    /\ type_hints = NodeHints
    /\ type_args = NodeArgs
    /\ log[j].root = Type("A")

\* The unlabelled cyclic placeholder standing for descriptor d.
IsPlaceholderFor(n, d) ==
    n.cyclic /\ n.var = None /\ n.type.kind = "ref" /\ n.type.name = d

\* C14 as stated: for root Node { value: int, next: Optional[Node] } the
\* sequence has exactly four nodes: one int node, one cyclic placeholder for
\* Node, one node for the Optional wrapper, and the root's node last.
C14_FourNodes ==
    \A j \in 1..Len(log) :
        NodeCall(j) =>
            LET r == log[j].result
            IN /\ Len(r) = 4
               /\ Cardinality({i \in 1..Len(r) : r[i].type = Type("int")}) = 1
               /\ Cardinality({i \in 1..Len(r) : IsPlaceholderFor(r[i], "A")}) = 1
               /\ Cardinality({i \in 1..Len(r) : r[i].type = Type("G")}) = 1
               /\ r[Len(r)] = [type |-> Type("A"), var |-> None, cyclic |-> FALSE]

\* C14 amended: the sequence has exactly five nodes: the int node labelled
\* value, the cyclic placeholder for the nested Node, a NoneType node for the
\* second argument of Optional[Node], the Optional wrapper labelled next, and
\* the root's node last.
C14_FiveNodes ==
    \A j \in 1..Len(log) :
        NodeCall(j) =>
            LET r == log[j].result
            IN /\ Len(r) = 5
               /\ r[1] = [type |-> Type("int"), var |-> "value", cyclic |-> FALSE]
               /\ IsPlaceholderFor(r[2], "A")
               /\ r[3] = [type |-> Type("NoneType"), var |-> None, cyclic |-> FALSE]
               /\ r[4] = [type |-> Type("G"), var |-> "next", cyclic |-> FALSE]
               /\ r[5] = [type |-> Type("A"), var |-> None, cyclic |-> FALSE]

\* C14 witness: a call for root Node that built the graph has returned.
C14_Witness ==
    \E j \in 1..Len(log) : NodeCall(j) /\ ~log[j].hit /\ log[j].level_calls >= 3

RECURSIVE Up(_, _)
\* The nodes of S and the nodes above them: their parents, the parents' parents, ...
Up(th, S) ==
    LET N == S \cup {e[1] : e \in {x \in edges[th] : x[2] \in S}}
    IN IF N = S THEN S ELSE Up(th, N)

\* The descriptors of parent and of the nodes above it, up to the root.
AncestorTypes(th, parent) == {n.type.name : n \in Up(th, {parent})}

\* C15 as stated: every cyclic-flagged node stands for a descriptor that is
\* its own descendant: the descriptor is that of the parent being expanded or
\* of a node above the parent (the root included); a descriptor that only
\* recurs among siblings or in unrelated positions is not flagged.
C15_StructuralOnly ==
    \A th \in Threads :
        \A e \in edges[th] :
            e[2].cyclic => e[2].type.name \in AncestorTypes(th, e[1])

\* C15 witness: a finished build in which the second of two sibling fields of
\* one non-primitive type is flagged cyclic although that type is nowhere
\* above the parent and names no type itself.
C15_Witness ==
    \E th \in Threads :
        /\ Built(th)
        /\ \E e \in edges[th] :
              /\ e[2].cyclic
              /\ e[2].type.name \notin AncestorTypes(th, e[1])
              /\ _level(e[2].type.name) = <<>>
              /\ \E f \in edges[th] :
                    /\ f[1] = e[1]
                    /\ f[2] = TypeNode(Type(e[2].type.name), f[2].var, FALSE)

\* C16 as stated: the returned sequence never holds two non-cyclic nodes with
\* the same descriptor.
C16_OneNodePerDescriptor ==
    \A th \in Threads :
        Built(th) =>
            \A i, j \in 1..Len(out[th]) :
                /\ i # j
                /\ ~out[th][i].cyclic
                /\ ~out[th][j].cyclic
                => out[th][i].type # out[th][j].type

\* C16 amended: the visited set holds descriptors only, so visitation is by
\* descriptor alone; the vertices of the graph are the distinct nodes, told
\* apart by descriptor, label and cyclic flag together. The returned sequence
\* holds every vertex once; two different non-cyclic nodes in it with the same
\* descriptor stand for a primitive under two different labels, and every
\* labelled occurrence of a primitive in an expanded level has its own vertex.
C16_VertexIdentity ==
    \A th \in Threads :
        /\ visited[th] \subseteq {Type(d) : d \in Types}
        /\ Built(th) =>
              /\ {out[th][i] : i \in 1..Len(out[th])}
                     = {expanded[th][1]} \cup {e[2] : e \in edges[th]}
              /\ \A i, j \in 1..Len(out[th]) :
                    /\ i # j => out[th][i] # out[th][j]
                    /\ (/\ i # j
                        /\ ~out[th][i].cyclic
                        /\ ~out[th][j].cyclic
                        /\ out[th][i].type = out[th][j].type)
                       => /\ out[th][i].type.name \in Prims
                          /\ out[th][i].var # out[th][j].var

\* C16 witness: a returned sequence with two non-cyclic nodes for int under
\* two labels.
C16_Witness ==
    \E th \in Threads :
        /\ Built(th)
        /\ \E i, j \in 1..Len(out[th]) :
              /\ out[th][i].type = Type("int")
              /\ out[th][j].type = Type("int")
              /\ out[th][i].var # out[th][j].var
              /\ out[th][i].var # None
              /\ out[th][j].var # None

\* C17 as stated: the forward reference of a placeholder has is_argument set
\* exactly when the occurrence is a generic type argument, that is when the
\* placeholder has no label.
C17_ArgumentFlag ==
    \A th \in Threads :
        \A e \in edges[th] :
            e[2].cyclic => (e[2].type.is_argument <=> e[2].var = None)

\* C17 witness: a finished build holding a placeholder for a named field
\* whose reference says it is an argument, and a placeholder for a generic
\* argument whose reference says it is not.
C17_Witness ==
    \E th \in Threads :
        /\ Built(th)
        /\ \E e, f \in edges[th] :
              /\ e[2].cyclic /\ e[2].var # None /\ e[2].type.is_argument
              /\ e[1].type.name \in Users
              /\ f[2].cyclic /\ f[2].var = None /\ ~f[2].type.is_argument
              /\ f[1].type.name \in Generics

\* C18: at every point of the build no cyclic-flagged node waits in the queue
\* or has been expanded, the forward reference of a placeholder is not in the
\* visited set, and every cyclic-flagged node of the graph has no
\* predecessors: none counted by the sorter, none recorded as an edge.
C18_PlaceholderInvariant ==
    \A th \in Threads :
        /\ \A i \in 1..Len(stack[th]) : ~stack[th][i].cyclic
        /\ \A i \in 1..Len(expanded[th]) : ~expanded[th][i].cyclic
        /\ \A e \in edges[th] :
              e[2].cyclic => /\ e[2].type \notin visited[th]
                             /\ e[2].type.kind = "ref"
                             /\ \A f \in edges[th] : f[1] # e[2]
        /\ pc[th] = "build" =>
              \A n \in Nodes(th) : n.cyclic => graph[th].npredecessors[n] = 0

\* C18 witness: the queue has drained on a graph with two placeholders, one of
\* them two levels below the root.
C18_Witness ==
    \E th \in Threads :
        /\ pc[th] = "build"
        /\ stack[th] = <<>>
        /\ Cardinality({n \in Nodes(th) : n.cyclic}) >= 2
        /\ \E e \in edges[th] :
              e[2].cyclic /\ e[1] # expanded[th][1]

\* C19: every descriptor reachable from the root through the levels (absent
\* and unconstrained children are not descriptors) has a non-cyclic node in the
\* returned sequence, and every placeholder in it stands for a descriptor
\* that has a non-cyclic node there as well.
C19_Completeness ==
    \A th \in Threads :
        Built(th) =>
            /\ \A d \in Reach({t[th].name}, LevelKids) :
                  \E i \in 1..Len(out[th]) :
                      ~out[th][i].cyclic /\ out[th][i].type = Type(d)
            /\ \A i \in 1..Len(out[th]) :
                  out[th][i].cyclic =>
                      \E j \in 1..Len(out[th]) :
                          /\ ~out[th][j].cyclic
                          /\ out[th][j].type = Type(out[th][i].type.name)

\* C19 witness: a returned sequence for a root that reaches all four kinds of
\* descriptor, one of them only through another, with a placeholder in it.
C19_Witness ==
    \E th \in Threads :
        /\ Built(th)
        /\ Reach({t[th].name}, LevelKids) = {"int", "A", "B", "G"}
        /\ \E i \in 1..Len(out[th]) : out[th][i].cyclic
        /\ \E d \in {"B", "G"} : CountChild(t[th].name, d) = 0

====
